---- MODULE Spec2Model ----
(***************************************************************************)
(* A model of the browser-test synchronisation layer of                    *)
(* grr/gui/gui_test_lib.py: the SeleniumAction retry decorator, the        *)
(* WaitUntil polling family, the AJAX idle gate and the interaction        *)
(* actions built from them (Click, DoubleClick, Type, Open, Refresh).      *)
(*                                                                         *)
(* The Python call stack is explicit: `stack` is a sequence of frames, the *)
(* last one executing.  A callee that finishes pops its frame and leaves   *)
(* its outcome (a returned value or a raised exception) in `flight`, where *)
(* the caller's next step picks it up.  Leaf calls (a condition callback,  *)
(* a driver call) are evaluated inside the caller's step.                  *)
(***************************************************************************)
EXTENDS Integers, Sequences, FiniteSets, TLC

VARIABLES
    script,   \* the top-level calls the test has still to make
    args,     \* the arguments of the top-level call that is running
    stack,    \* the Python call stack, innermost frame last
    flight,   \* the outcome a finished callee hands to its caller
    browser,  \* the browser behind the driver: DOM, AJAX queue, console, ...
    cond,     \* what an abstract condition callback observes, and since when
    cnt,      \* history: how often each tracked event happened (and the clock)
    hist      \* history: the latest callback outcome, the gate of this attempt

vars == <<script, args, stack, flight, browser, cond, cnt, hist>>

(***************************************************************************)
(* Program constants.                                                      *)
(***************************************************************************)
\* SeleniumAction: num_attempts = 15.
num_attempts == 15

\* SeleniumAction: delay = 0.2 (seconds), held here in milliseconds.
delay_ms == 200

\* GRRSeleniumTest.duration = 5 (seconds).
duration == 5

\* GRRSeleniumTest.sleep_time = 0.2 (seconds), held here in milliseconds.
sleep_time_ms == 200

\* A loop bound that lets the wait poll once more.
Iterations_OneMore == (duration * 1000) \div sleep_time_ms + 1

\* int(self.duration / self.sleep_time): the number of polls of every wait.
Iterations == (duration * 1000) \div sleep_time_ms

(***************************************************************************)
(* Bounds of the model.                                                    *)
(***************************************************************************)
\* The clock counts ticks; one time.sleep(sleep_time) lasts this many, so
\* that a change of the page can fall strictly inside a sleep.
TicksPerSleep == 2

\* duration and delay, in ticks.
DurationTicks == (duration * 1000 * TicksPerSleep) \div sleep_time_ms
DelayTicks == (delay_ms * TicksPerSleep) \div sleep_time_ms

(***************************************************************************)
(* Python values and exceptions.                                           *)
(***************************************************************************)
Val(t, v) == [t |-> t, v |-> v]
None == Val("NoneType", 0)
True == Val("bool", 1)
False == Val("bool", 0)
Int0 == Val("int", 0)
Obj(k) == Val("object", k)

\* Python truthiness of a value (bool(x)).
Truthy(x) ==
    CASE x.t = "NoneType" -> FALSE
      [] x.t = "bool" -> x.v = 1
      [] x.t = "int" -> x.v # 0
      [] OTHER -> TRUE

\* An exception object: its class, where it was raised, and the ordinal of
\* the invocation that raised it (which tells two objects of a class apart).
Exc(type, origin, seq) == [type |-> type, origin |-> origin, seq |-> seq]
NoExc == Exc("", "", 0)

\* A handler clause as wide as `except Exception`.
IsWebDriverException_Any(e) == e.type # ""

\* A handler clause that takes RuntimeError for a driver error too.
IsWebDriverException_OrRuntimeError(e) ==
    e.type \in {"WebDriverException", "NoSuchElementException", "RuntimeError"}

\* selenium.common.exceptions: NoSuchElementException is a
\* WebDriverException; the clause `except exceptions.WebDriverException`.
IsWebDriverException(e) ==
    e.type \in {"WebDriverException", "NoSuchElementException"}

NoFlight == [kind |-> "none", val |-> None, exc |-> NoExc]
Return(v) == [kind |-> "return", val |-> v, exc |-> NoExc]
Raise(e) == [kind |-> "raise", val |-> None, exc |-> e]

(***************************************************************************)
(* Frames and history.                                                     *)
(***************************************************************************)
\* fn: the function; pc: the place in it; n: its counter (cur_attempt, the
\* loop index); loc: the wrapped function or the condition callback; arg:
\* the value the function was given or holds (target, element).
Frame(fn, pc, n, loc, arg) ==
    [fn |-> fn, pc |-> pc, n |-> n, loc |-> loc, arg |-> arg]

Top == stack[Len(stack)]
Pop == SubSeq(stack, 1, Len(stack) - 1)
Running(fn, pc) == stack # <<>> /\ Top.fn = fn /\ Top.pc = pc
SetTop(f) == [stack EXCEPT ![Len(stack)] = f]
Goto(pc) == SetTop([Top EXCEPT !.pc = pc])

\* Count d more of event e, when this run tracks e.
Count(c, e, d) == IF e \in DOMAIN c THEN [c EXCEPT ![e] = @ + d] ELSE c
Seen(e) == IF e \in DOMAIN cnt THEN cnt[e] ELSE 0
NoCounts(tracked) == [e \in tracked |-> 0]

\* The history a run keeps is the fields hist starts with: last, the
\* outcome of the latest callback (or f) invocation; gate, see
\* GateAfterPoll; at_call, the browser's location when the running call
\* was made; nav and before, see Open_Get; field, the node Type sent its
\* keys to; resolved, see Resolved; by, scheme and pattern, see InitFind.
Note(h, field, v) == IF field \in DOMAIN h THEN [h EXCEPT ![field] = v] ELSE h
Noted(field, default) == IF field \in DOMAIN hist THEN hist[field] ELSE default
HistLast == [last |-> NoFlight]
HistGate == [gate |-> 0]

\* The test is over: nothing runs, and either every call of the script
\* returned or one raised (which aborts the test).
Done ==
    /\ stack = <<>>
    /\ flight.kind # "none"
    /\ (script = <<>> \/ flight.kind = "raise")

(***************************************************************************)
(* The world outside the test: it moves only while the test sleeps.  The   *)
(* driver calls the test makes between two sleeps see one browser state.   *)
(***************************************************************************)
\* The sequences over S of length up to n.
RECURSIVE SeqsUpTo(_, _)
SeqsUpTo(S, n) ==
    IF n = 0 THEN {<<>>}
    ELSE LET shorter == SeqsUpTo(S, n - 1)
         IN  shorter \cup {Append(q, x) : q \in shorter, x \in S}

\* The longest AJAX queue the page builds up.
MaxQueue == 2

\* The most entries the browser console holds.
MaxLog == 1

\* What an abstract condition callback does when it is invoked now.
Worlds == {"raise", "falsy", "truthy"}

\* A part of the world a run has no use for is absent and stays so.
NoCond == [world |-> "none", since |-> 0]
NoQueue == 0 - 1

\* cond after a sleep that began at tick t: as before, or changed at some
\* tick of the sleep (since: when it last became truthy, if it is).
CondNext(c, t) ==
    IF c.world = "none" THEN {c}
    ELSE {c} \cup
         {[world |-> w, since |-> IF w = "truthy" THEN t + d ELSE 0] :
              w \in Worlds \ {c.world}, d \in 1..TicksPerSleep}

\* The AJAX queue after a sleep: requests were issued or completed.
QueueNext(q) == IF q = NoQueue THEN {q} ELSE 0..MaxQueue

\* The most DOM nodes that match the target of a call at any time.
MaxNodes == 1

\* The DOM, as far as a call can see it: the elements its target's pattern
\* matches, in document order.  node: the DOM node; displayed: what
\* is_displayed() answers; exact: whether the element's trimmed text equals
\* the pattern (it always contains it).
DomElems(nodes, exacts) ==
    [node : nodes, displayed : BOOLEAN, exact : exacts]

Distinct(d) == \A i, j \in 1..Len(d) : d[i].node = d[j].node => i = j

Doms(nodes, exacts) ==
    {d \in SeqsUpTo(DomElems(nodes, exacts), Cardinality(nodes)) : Distinct(d)}

\* The DOM after a sleep: elements were added, removed, shown or hidden
\* (unique: the pattern is one that at most one element matches at a time,
\* as an id does).
DomNext(b) == {d \in Doms(b.nodes, b.exacts) : b.unique => Len(d) <= 1}

BrowserNext(b) ==
    {[b EXCEPT !.queue = q, !.dom = d] :
        q \in QueueNext(b.queue), d \in DomNext(b)}

\* The world moves on while the test sleeps for one sleep_time.
Elapse ==
    /\ cond' \in CondNext(cond, Seen("clock"))
    /\ browser' \in BrowserNext(browser)

\* The console entries: message.get("source"), message.get("level").
LogEntries ==
    [source : {"javascript", "network"}, level : {"SEVERE", "WARNING"}]

Logs == SeqsUpTo(LogEntries, MaxLog)

\* An empty console, and the consoles that hold nothing but severe
\* JavaScript errors.
QuietOrSevere ==
    SeqsUpTo({[source |-> "javascript", level |-> "SEVERE"]}, MaxLog)

(***************************************************************************)
(* The test calls into the library.                                        *)
(***************************************************************************)
\* A call of the test: the method, and of its arguments those it takes
\* (condition_cb; target; text and end_with_enter; url).
Call(op, cb, target, text, url) ==
    [op |-> op, cb |-> cb, target |-> target, text |-> text,
     end_with_enter |-> FALSE, url |-> url]
NoCall == Call("", "", <<>>, <<>>, <<>>)

\* The methods defined under @SeleniumAction (and the abstract wrapped f).
Wrapped(op) ==
    op \in {"f", "Open", "Refresh", "Back", "Forward", "Click", "DoubleClick",
            "Type", "Select"}

\* Calling op: a decorated method is entered through its Decorator.
Enter(c) ==
    IF Wrapped(c.op) THEN Frame("Decorator", "try", 0, c.op, None)
    ELSE IF c.op \in {"WaitUntilEqual", "WaitUntilContains"}
    THEN Frame(c.op, "start", 0, c.cb, c.target)
    ELSE Frame(c.op, "start", 0, c.cb, None)

\* The test makes its next call, once the previous one has returned.
Test_Call ==
    /\ stack = <<>>
    /\ script # <<>>
    /\ flight.kind # "raise"
    /\ args' = Head(script)
    /\ script' = Tail(script)
    /\ stack' = <<Enter(Head(script))>>
    /\ flight' = NoFlight
    /\ hist' = Note(hist, "at_call", browser.url)
    /\ UNCHANGED <<browser, cond, cnt>>

(***************************************************************************)
(* SeleniumAction(f).Decorator                                             *)
(***************************************************************************)
\* A handler that gives up one failure too late.
Decorator_Handle_OneMore(e, n) ==
    IF n = num_attempts + 1 THEN [raise |-> TRUE, exc |-> e]
    ELSE [raise |-> FALSE, exc |-> e]

\* A handler that gives up one failure too early.
Decorator_Handle_Early(e, n) ==
    IF n = num_attempts - 1 THEN [raise |-> TRUE, exc |-> e]
    ELSE [raise |-> FALSE, exc |-> e]

\* What the handler does with the caught WebDriverException e once
\* cur_attempt has been incremented to n: re-raise it, or sleep and retry.
Decorator_Handle(e, n) ==
    IF n = num_attempts THEN [raise |-> TRUE, exc |-> e]
    ELSE [raise |-> FALSE, exc |-> e]

\* try: return f(*args, **kwargs) -- the call itself.
Decorator_Invoke ==
    /\ Running("Decorator", "try")
    /\ stack' = Append(Goto("called"), Frame(Top.loc, "start", 0, "", None))
    /\ hist' = Note(Note(hist, "gate", 0), "resolved", 0)
    /\ cnt' = Count(cnt, "attempt", 1)
    /\ UNCHANGED <<script, args, flight, browser, cond>>

\* f returned: the Decorator returns its value.
Decorator_Return ==
    /\ Running("Decorator", "called")
    /\ flight.kind = "return"
    /\ stack' = Pop
    /\ UNCHANGED <<script, args, flight, browser, cond, cnt, hist>>

\* A handler that logs only the failures it is going to retry.
Decorator_Except_QuietLast ==
    /\ Running("Decorator", "called")
    /\ flight.kind = "raise"
    /\ IsWebDriverException(flight.exc)
    /\ LET h == Decorator_Handle(flight.exc, Top.n + 1)
       IN  IF h.raise
           THEN /\ stack' = Pop
                /\ flight' = Raise(h.exc)
                /\ cnt' = cnt
           ELSE /\ stack' = SetTop([Top EXCEPT !.n = @ + 1, !.pc = "sleep"])
                /\ flight' = NoFlight
                /\ cnt' = Count(cnt, "warn", 1)
    /\ UNCHANGED <<script, args, browser, cond, hist>>

\* except exceptions.WebDriverException as e: warn, count, raise or go on.
Decorator_Except ==
    /\ Running("Decorator", "called")
    /\ flight.kind = "raise"
    /\ IsWebDriverException(flight.exc)
    /\ LET h == Decorator_Handle(flight.exc, Top.n + 1)
       IN  /\ cnt' = Count(cnt, "warn", 1)
           /\ IF h.raise
              THEN /\ stack' = Pop
                   /\ flight' = Raise(h.exc)
              ELSE /\ stack' = SetTop([Top EXCEPT !.n = @ + 1, !.pc = "sleep"])
                   /\ flight' = NoFlight
    /\ UNCHANGED <<script, args, browser, cond, hist>>

\* time.sleep(delay), then round the while True loop.
Decorator_Sleep ==
    /\ Running("Decorator", "sleep")
    /\ cnt' = Count(Count(cnt, "sleep", 1), "clock", DelayTicks)
    /\ stack' = Goto("try")
    /\ Elapse
    /\ UNCHANGED <<script, args, flight, hist>>

(***************************************************************************)
(* Exceptions no handler of the running frame catches leave the frame.     *)
(***************************************************************************)
\* The frames with a try block around the call they are waiting for.
Catches(f, e) ==
    \/ f.fn = "Decorator" /\ f.pc = "called" /\ IsWebDriverException(e)

Unwind ==
    /\ stack # <<>>
    /\ flight.kind = "raise"
    /\ ~Catches(Top, flight.exc)
    /\ stack' = Pop
    /\ UNCHANGED <<script, args, flight, browser, cond, cnt, hist>>

(***************************************************************************)
(* An abstract wrapped operation f: each invocation returns a value, fails *)
(* with a driver error, or fails with another error.                       *)
(***************************************************************************)
FValues == {Obj(1), Obj(2), None}
FErrors == {"WebDriverException", "NoSuchElementException", "ValueError"}

F_Outcomes(k) ==
    {Return(v) : v \in FValues} \cup {Raise(Exc(t, "f", k)) : t \in FErrors}

F_Body ==
    /\ Running("f", "start")
    /\ \E o \in F_Outcomes(Seen("f") + 1) :
          /\ flight' = o
          /\ hist' = Note(hist, "last", o)
          /\ cnt' = Count(Count(cnt, "f", 1), "f_wde",
                          IF o.kind = "raise" /\ IsWebDriverException(o.exc)
                          THEN 1 ELSE 0)
    /\ stack' = Pop
    /\ UNCHANGED <<script, args, browser, cond>>

(***************************************************************************)
(* The retry decorator around an abstract f.                               *)
(***************************************************************************)
\* value: the content of each node's input field; url: the location.
NoBrowser ==
    [queue |-> NoQueue, log |-> <<>>, nodes |-> {}, exacts |-> {TRUE},
     unique |-> FALSE, dom |-> <<>>, value |-> <<>>, url |-> <<>>]

InitRetry ==
    /\ script = <<Call("f", "", <<>>, <<>>, <<>>)>>
    /\ args = NoCall
    /\ stack = <<>>
    /\ flight = NoFlight
    /\ browser = NoBrowser
    /\ cond = NoCond
    /\ cnt = NoCounts({"f", "f_wde", "warn", "sleep"})
    /\ hist = HistLast

NextRetry ==
    \/ Test_Call
    \/ Decorator_Invoke
    \/ Decorator_Return
    \/ Decorator_Except
    \/ Decorator_Sleep
    \/ Unwind
    \/ F_Body

SpecRetry == InitRetry /\ [][NextRetry]_vars

\* The latest invocation of f failed with an error that is no driver error
\* (ValueError is the one such class f raises here).
LastFatal == hist.last.kind = "raise" /\ hist.last.exc.type = "ValueError"

\* C1: f is never invoked a 16th time, and when every invocation of f has
\* raised a WebDriverException the wrapper ends after exactly 15 invocations
\* by raising the very exception object the 15th invocation raised.
C1_RetryBudget ==
    /\ Seen("f") <= 15
    /\ (Done /\ cnt["f_wde"] = cnt["f"]) =>
          /\ cnt["f"] = 15
          /\ flight = Raise(hist.last.exc)
          /\ IsWebDriverException(flight.exc)
          /\ flight.exc.origin = "f"
          /\ flight.exc.seq = 15

C1_Witness == Done /\ cnt["f"] = 15 /\ cnt["f_wde"] = 15

\* C2: once the k-th invocation of f has raised an error that is no
\* WebDriverException, f is not invoked again (the count stays k), no sleep
\* follows (k-1 sleeps and k-1 warnings, those of the transient failures
\* before it), and that same error travels up to the caller.
C2_FatalPropagates ==
    LastFatal =>
        /\ flight = hist.last
        /\ cnt["f"] = hist.last.exc.seq
        /\ cnt["f_wde"] = cnt["f"] - 1
        /\ cnt["sleep"] = cnt["f"] - 1
        /\ cnt["warn"] = cnt["f"] - 1
        /\ (stack = <<>> \/ ENABLED Unwind)
        /\ ~ENABLED Decorator_Invoke
        /\ ~ENABLED Decorator_Sleep

C2_Witness == Done /\ LastFatal /\ cnt["f"] = 3 /\ flight.exc.seq = 3

\* C3: when the wrapper returns, it returns the value of the latest
\* invocation of f, which followed n <= 14 failed ones, after n+1
\* invocations, n warnings and n sleeps; and when all 15 invocations failed
\* it has logged 15 warnings and slept 14 times.
C3_Accounting ==
    /\ (Done /\ flight.kind = "return") =>
          /\ flight = hist.last
          /\ cnt["f_wde"] <= 14
          /\ cnt["f"] = cnt["f_wde"] + 1
          /\ cnt["warn"] = cnt["f_wde"]
          /\ cnt["sleep"] = cnt["f_wde"]
    /\ (Done /\ cnt["f_wde"] = 15) =>
          /\ cnt["warn"] = 15
          /\ cnt["sleep"] = 14

C3_Witness ==
    Done /\ flight.kind = "return" /\ cnt["f_wde"] = 14 /\ cnt["sleep"] = 14

(***************************************************************************)
(* Condition callbacks: what one invocation can do in the present world.   *)
(***************************************************************************)
\* The errors and values of an abstract callback.  Its k-th invocation
\* raises its own error object; RuntimeError is among the classes, so the
\* class alone does not tell a callback error from the wait's timeout.
CbErrors == {"NoSuchElementException", "RuntimeError"}
CbFalsy == {None, False, Int0}
CbTruthy == {Obj(1), Obj(2), True}

Cb_Outcomes(k) ==
    CASE cond.world = "raise" -> {Raise(Exc(t, "cb", k)) : t \in CbErrors}
      [] cond.world = "falsy" -> {Return(v) : v \in CbFalsy}
      [] cond.world = "truthy" -> {Return(v) : v \in CbTruthy}
      [] OTHER -> {}

\* An abstract callback that reads a text off the page: an empty one, or
\* one of two that begin alike.
Text_Outcomes(k) ==
    CASE cond.world = "raise" -> {Raise(Exc(t, "cb", k)) : t \in CbErrors}
      [] cond.world = "falsy" -> {Return(Val("str", <<>>))}
      [] cond.world = "truthy" ->
             {Return(Val("str", <<"a">>)), Return(Val("str", <<"a", "b">>))}
      [] OTHER -> {}

\* A lambda that hands the callback's outcome on as it is.
Negated_Plain(o) == o

\* lambda: not condition_cb(*args) -- the callback WaitUntilNot hands to
\* WaitUntil, over the abstract callback.
Negated(o) ==
    IF o.kind = "raise" THEN o
    ELSE Return(IF Truthy(o.val) THEN False ELSE True)

Lambda_Outcomes(k) == {Negated(o) : o \in Cb_Outcomes(k)}

\* GetJavaScriptValue(js_expression): driver.execute_script yields the
\* queue length, or fails (the page's scope is not there yet).
GetJavaScriptValue_Outcomes(k) ==
    IF browser.queue = NoQueue
    THEN {Raise(Exc("WebDriverException", "execute_script", k))}
    ELSE {Return(Val("int", browser.queue)),
          Raise(Exc("WebDriverException", "execute_script", k))}

(***************************************************************************)
(* Selectors and element lookup.  A selector string is a sequence of       *)
(* tokens, "=" being a token of its own: "css=X" is <<"css", "=", "X">>.   *)
(***************************************************************************)
Elem(node) == Val("WebElement", node)

\* The position of the first "=" of a string, 0 when it has none.
FirstEq(str) ==
    IF \E i \in 1..Len(str) : str[i] = "="
    THEN CHOOSE i \in 1..Len(str) :
             str[i] = "=" /\ \A j \in 1..(i - 1) : str[j] # "="
    ELSE 0

\* A split that finds no scheme in any selector.
Split_Untyped(selector) ==
    [typed |-> FALSE, type |-> <<>>, effective |-> selector]

\* selector.split("=", 1), with the ValueError branch: no "=" leaves
\* selector_type None (typed FALSE here) and the whole string effective.
Split(selector) ==
    LET i == FirstEq(selector)
    IN  IF i = 0
        THEN [typed |-> FALSE, type |-> <<>>, effective |-> selector]
        ELSE [typed |-> TRUE,
              type |-> SubSeq(selector, 1, i - 1),
              effective |-> SubSeq(selector, i + 1, Len(selector))]

\* A filter that lets every element through.
IsShown_Any(e) == TRUE

\* e.is_displayed(), e.text.strip() == effective_selector
IsShown(e) == e.displayed
IsExact(e) == e.exact

\* The first of the elements, as the driver's find_element_by_* gives it,
\* or NoSuchElementException when there is none.
FirstOf(elems) ==
    IF elems = <<>> THEN Raise(Exc("NoSuchElementException", "_FindElement", 0))
    ELSE Return(Elem(elems[1].node))

\* _FindElement(selector) on the DOM dom: by: the driver lookup used
\* ("none" when the selector type is unknown), out: what it returns or
\* raises.
FindElement(selector, dom) ==
    LET sp == Split(selector)
    IN  CASE sp.typed /\ sp.type = <<"css">> ->
                 [by |-> "execute_script", out |-> FirstOf(SelectSeq(dom, IsShown))]
          [] sp.typed /\ sp.type = <<"link">> ->
                 [by |-> "partial_link_text", out |-> FirstOf(SelectSeq(dom, IsExact))]
          [] sp.typed /\ sp.type = <<"xpath">> ->
                 [by |-> "xpath", out |-> FirstOf(dom)]
          [] sp.typed /\ sp.type = <<"id">> ->
                 [by |-> "id", out |-> FirstOf(dom)]
          [] sp.typed /\ sp.type = <<"name">> ->
                 [by |-> "name", out |-> FirstOf(dom)]
          [] ~sp.typed ->
                 IF Len(sp.effective) > 0 /\ sp.effective[1] = "//"
                 THEN [by |-> "xpath", out |-> FirstOf(dom)]
                 ELSE [by |-> "id", out |-> FirstOf(dom)]
          [] OTHER ->
                 [by |-> "none",
                  out |-> Raise(Exc("RuntimeError", "_FindElement", 0))]

\* An element that always answers that it is displayed.
IsDisplayed_Always(elem, dom) == TRUE

\* element.is_displayed()
IsDisplayed(elem, dom) ==
    \E i \in 1..Len(dom) : dom[i].node = elem.v /\ dom[i].displayed

\* GetElement(target): the element, or None when there is none.
GetElement(target, dom) ==
    LET r == FindElement(target, dom).out
    IN  IF r.kind = "raise" /\ r.exc.type = "NoSuchElementException"
        THEN Return(None)
        ELSE r

\* IsVisible(target): element and element.is_displayed() -- None when
\* there is no element, else what is_displayed() answers.
IsVisible(target, dom) ==
    LET r == GetElement(target, dom)
    IN  IF r.kind = "raise" \/ r.val = None THEN r
        ELSE Return(IF IsDisplayed(r.val, dom) THEN True ELSE False)

\* A lookup that hands the element on without asking whether it is
\* displayed.
GetVisibleElement_Unchecked(target, dom) ==
    LET r == FindElement(target, dom).out
    IN  IF r.kind = "raise" /\ r.exc.type = "NoSuchElementException"
        THEN Return(None)
        ELSE r

\* GetVisibleElement(target): the element when it is found and displayed,
\* None when it is not displayed or not found; other errors pass.
GetVisibleElement(target, dom) ==
    LET r == FindElement(target, dom).out
    IN  IF r.kind = "return"
        THEN (IF IsDisplayed(r.val, dom) THEN r ELSE Return(None))
        ELSE IF r.exc.type = "NoSuchElementException" THEN Return(None)
        ELSE r

\* condition_cb(*args), for the k-th time in this wait.
Invoke(cb, k) ==
    CASE cb = "cb" -> Cb_Outcomes(k)
      [] cb = "GetJavaScriptValue" -> GetJavaScriptValue_Outcomes(k)
      [] cb = "GetVisibleElement" -> {GetVisibleElement(args.target, browser.dom)}
      [] cb = "text" -> Text_Outcomes(k)
      [] cb = "lambda" -> Lambda_Outcomes(k)
      [] OTHER -> {}

(***************************************************************************)
(* CheckJavascriptErrors and WaitUntil                                     *)
(***************************************************************************)
\* A check that takes every severe entry, whatever its source.
CheckJavascriptErrors_AnySevere(log) ==
    \E i \in 1..Len(log) : log[i].level = "SEVERE"

\* Whether CheckJavascriptErrors calls self.fail for this console log.
CheckJavascriptErrors(log) ==
    \E i \in 1..Len(log) :
        log[i].source = "javascript" /\ log[i].level = "SEVERE"

\* if res: -- the poll's outcome ends the wait.
WaitUntil_Accept(o) == o.kind = "return" /\ Truthy(o.val)

\* A wait that answers True where the code answers res.
WaitUntil_Result_True(o) == True

\* return res
WaitUntil_Result(o) == o.val

\* History: the gate of the running attempt is 1 once the idle probe was
\* seen at 0, and 2 once, after that, the poll of a wait came back with an
\* element that the DOM shows at that moment.
GateAfterPoll(g, o) ==
    IF /\ g = 1
       /\ o.kind = "return"
       /\ o.val.t = "WebElement"
       /\ \E i \in 1..Len(browser.dom) :
              browser.dom[i].node = o.val.v /\ browser.dom[i].displayed
    THEN 2
    ELSE g

\* History: resolved counts the calls of _FindElement the waits of the
\* running attempt have made, one in every invocation of GetVisibleElement.
Resolved(h, cb) ==
    Note(h, "resolved",
         Noted("resolved", 0) + (IF cb = "GetVisibleElement" THEN 1 ELSE 0))

\* History: "poll" counts the polls of WaitUntil, "falsy" those of them at
\* which the abstract condition was one that returns a falsy value.
Polled(c) ==
    Count(Count(c, "poll", 1), "falsy", IF cond.world = "falsy" THEN 1 ELSE 0)

\* self.CheckJavascriptErrors(), before the loop.
WaitUntil_Enter ==
    /\ Running("WaitUntil", "start")
    /\ cnt' = Count(cnt, "jscheck", 1)
    /\ IF CheckJavascriptErrors(browser.log)
       THEN /\ stack' = Pop
            /\ flight' = Raise(Exc("AssertionError", "CheckJavascriptErrors", 0))
       ELSE /\ stack' = Goto("poll")
            /\ flight' = NoFlight
    /\ UNCHANGED <<script, args, browser, cond, hist>>

\* One round of the loop up to the sleep: res = condition_cb(*args); a
\* truthy res is returned, an exception is logged and swallowed.
WaitUntil_Poll ==
    /\ Running("WaitUntil", "poll")
    /\ Top.n < Iterations
    /\ \E o \in Invoke(Top.loc, Seen("poll") + 1) :
          /\ hist' = Resolved(Note(Note(hist, "last", o),
                                    "gate", GateAfterPoll(Noted("gate", 0), o)),
                               Top.loc)
          /\ IF WaitUntil_Accept(o)
             THEN /\ stack' = Pop
                  /\ flight' = Return(WaitUntil_Result(o))
                  /\ cnt' = Count(Polled(cnt), "truthy", 1)
             ELSE /\ stack' = Goto("sleep")
                  /\ flight' = NoFlight
                  /\ cnt' = Count(Polled(cnt), "cbraise",
                                  IF o.kind = "raise" THEN 1 ELSE 0)
    /\ UNCHANGED <<script, args, browser, cond>>

\* time.sleep(self.sleep_time), and on to the next round.
WaitUntil_Sleep ==
    /\ Running("WaitUntil", "sleep")
    /\ stack' = SetTop([Top EXCEPT !.n = @ + 1, !.pc = "poll"])
    /\ cnt' = Count(Count(cnt, "wsleep", 1), "clock", TicksPerSleep)
    /\ Elapse
    /\ UNCHANGED <<script, args, flight, hist>>

\* The loop ran out: raise RuntimeError("condition not met, body is: ...").
\* (The page always has a body for the message to quote.)
WaitUntil_Timeout ==
    /\ Running("WaitUntil", "poll")
    /\ Top.n >= Iterations
    /\ stack' = Pop
    /\ flight' = Raise(Exc("RuntimeError", "WaitUntil", 0))
    /\ UNCHANGED <<script, args, browser, cond, cnt, hist>>

(***************************************************************************)
(* WaitUntil on an abstract condition.                                     *)
(***************************************************************************)
InitWait ==
    /\ script = <<Call("WaitUntil", "cb", <<>>, <<>>, <<>>)>>
    /\ args = NoCall
    /\ stack = <<>>
    /\ flight = NoFlight
    /\ \E l \in Logs : browser = [NoBrowser EXCEPT !.log = l]
    /\ \E w \in Worlds : cond = [world |-> w, since |-> 0]
    /\ cnt = NoCounts({"jscheck", "poll", "truthy", "cbraise", "wsleep", "clock"})
    /\ hist = HistLast

NextWait ==
    \/ Test_Call
    \/ WaitUntil_Enter
    \/ WaitUntil_Poll
    \/ WaitUntil_Sleep
    \/ WaitUntil_Timeout

SpecWait == InitWait /\ [][NextWait]_vars

\* C4: with no severe JavaScript error in the console, a WaitUntil whose
\* callback raised on every invocation has invoked it exactly
\* int(duration / sleep_time) = 25 times and ends by raising its own
\* "condition not met" RuntimeError, never an error object of the callback.
C4_AlwaysRaisingTimesOut ==
    (Done /\ ~CheckJavascriptErrors(browser.log) /\ cnt["cbraise"] = cnt["poll"]) =>
        /\ cnt["poll"] = 25
        /\ cnt["wsleep"] = 25
        /\ flight = Raise(Exc("RuntimeError", "WaitUntil", 0))
        /\ hist.last.kind = "raise"
        /\ flight.exc # hist.last.exc

C4_Witness ==
    /\ Done
    /\ cnt["cbraise"] = 25
    /\ cnt["poll"] = 25
    /\ hist.last.exc.type = "RuntimeError"
    /\ flight.exc.origin = "WaitUntil"

\* C5: WaitUntil returns exactly when a callback invocation gave a truthy
\* result, at the first such invocation: the value returned is the result of
\* the latest invocation, no invocation before it was truthy, none follows
\* it, and no sleep follows it (one sleep per earlier poll).
C5_FirstTruthy ==
    /\ flight.kind = "return" =>
          /\ Done
          /\ hist.last.kind = "return"
          /\ flight.val = hist.last.val
          /\ flight.val \in CbTruthy
          /\ cnt["truthy"] = 1
          /\ cnt["wsleep"] = cnt["poll"] - 1
          /\ ~ENABLED NextWait
    /\ (hist.last.kind = "return" /\ hist.last.val \in CbTruthy) =>
          flight = Return(hist.last.val)

C5_Witness ==
    /\ Done
    /\ flight = Return(Obj(2))
    /\ cnt["poll"] = 3
    /\ cnt["cbraise"] = 1

\* C6: whenever the wait has ended while the condition is truthy, and has
\* been since an instant before duration, the wait returned, within one
\* sleep_time of that instant and no later than duration after its start.
C6_PromptWithinDuration ==
    (/\ Done
     /\ ~CheckJavascriptErrors(browser.log)
     /\ cond.world = "truthy"
     /\ cond.since < DurationTicks) =>
        /\ flight.kind = "return"
        /\ cnt["clock"] - cond.since <= TicksPerSleep
        /\ cnt["clock"] <= DurationTicks

\* What holds instead: the condition has to be truthy by the last poll,
\* which is one sleep_time before duration.
C6_PromptBeforeLastPoll ==
    (/\ Done
     /\ ~CheckJavascriptErrors(browser.log)
     /\ cond.world = "truthy"
     /\ cond.since <= DurationTicks - TicksPerSleep) =>
        /\ flight.kind = "return"
        /\ cnt["clock"] - cond.since < TicksPerSleep
        /\ cnt["clock"] <= DurationTicks - TicksPerSleep

\* The console holds a severe entry of source javascript.
SevereLogged ==
    \E i \in 1..Len(browser.log) :
        browser.log[i] = [source |-> "javascript", level |-> "SEVERE"]

\* The failure self.fail raises.
TestFailure == Raise(Exc("AssertionError", "CheckJavascriptErrors", 0))

\* C17: WaitUntil scans the console exactly once per call, before the
\* loop; with a severe javascript entry in it WaitUntil never invokes the
\* callback, never sleeps and ends with the test failure; without one
\* (entries of another source or level only) it never ends that way.
C17_SevereFailsAtOnce ==
    /\ cnt["jscheck"] <= 1
    /\ Done => cnt["jscheck"] = 1
    /\ SevereLogged =>
          /\ cnt["poll"] = 0
          /\ cnt["wsleep"] = 0
          /\ Done => flight = TestFailure
          /\ stack # <<>> => Top.pc = "start"
    /\ (~SevereLogged /\ Done) => flight # TestFailure

C17_Witness ==
    /\ Done
    /\ SevereLogged
    /\ flight = TestFailure
    /\ cnt["jscheck"] = 1
    /\ cnt["poll"] = 0
    /\ cond.world = "truthy"

(***************************************************************************)
(* WaitUntilEqual and _WaitForAjaxCompleted                                *)
(***************************************************************************)
\* Python's a == b on the values of the model: numbers (bool is an int)
\* compare by value, anything else is equal to itself only.
PyEq(a, b) ==
    IF a.t \in {"int", "bool"} /\ b.t \in {"int", "bool"} THEN a.v = b.v
    ELSE a = b

\* History: the gate of the running attempt after a poll of the idle probe.
GateAfterProbe(g, cb, o) ==
    IF cb = "GetJavaScriptValue" THEN (IF o = Return(Int0) THEN 1 ELSE 0)
    ELSE g

\* A wait that takes any truthy value where the code compares with target.
WaitUntilEqual_Accept_Truthy(o, target) == o.kind = "return" /\ Truthy(o.val)

\* if condition_cb(*args) == target: -- the poll's outcome ends the wait.
WaitUntilEqual_Accept(o, target) == o.kind = "return" /\ PyEq(o.val, target)

\* A wait that answers the value the callback returned.
WaitUntilEqual_Result_Value(o) == o.val

\* return True
WaitUntilEqual_Result(o) == True

\* One round of the loop up to the sleep; there is no console check before
\* the loop.  On equality the wait returns True.
WaitUntilEqual_Poll ==
    /\ \/ Running("WaitUntilEqual", "start")
       \/ Running("WaitUntilEqual", "poll")
    /\ Top.n < Iterations
    /\ \E o \in Invoke(Top.loc, Seen("eq_poll") + 1) :
          /\ hist' = Note(Note(hist, "last", o),
                          "gate", GateAfterProbe(Noted("gate", 0), Top.loc, o))
          /\ cnt' = Count(Count(cnt, "eq_poll", 1), "eq_hit",
                          IF o = Return(Top.arg) THEN 1 ELSE 0)
          /\ IF WaitUntilEqual_Accept(o, Top.arg)
             THEN /\ stack' = Pop
                  /\ flight' = Return(WaitUntilEqual_Result(o))
             ELSE /\ stack' = Goto("sleep")
                  /\ flight' = NoFlight
    /\ UNCHANGED <<script, args, browser, cond>>

\* time.sleep(self.sleep_time), and on to the next round.
WaitUntilEqual_Sleep ==
    /\ Running("WaitUntilEqual", "sleep")
    /\ stack' = SetTop([Top EXCEPT !.n = @ + 1, !.pc = "poll"])
    /\ cnt' = Count(Count(cnt, "eq_sleep", 1), "clock", TicksPerSleep)
    /\ Elapse
    /\ UNCHANGED <<script, args, flight, hist>>

\* The loop ran out: raise RuntimeError("condition not met, body is: ...").
WaitUntilEqual_Timeout ==
    /\ Running("WaitUntilEqual", "poll")
    /\ Top.n >= Iterations
    /\ stack' = Pop
    /\ flight' = Raise(Exc("RuntimeError", "WaitUntilEqual", 0))
    /\ UNCHANGED <<script, args, browser, cond, cnt, hist>>

\* self.WaitUntilEqual(0, self.GetJavaScriptValue, "return $(...).length")
AjaxWait == Frame("WaitUntilEqual", "start", 0, "GetJavaScriptValue", Int0)

\* _WaitForAjaxCompleted: the call of WaitUntilEqual ...
WaitForAjaxCompleted_Call ==
    /\ Running("_WaitForAjaxCompleted", "start")
    /\ stack' = Append(Goto("called"), AjaxWait)
    /\ UNCHANGED <<script, args, flight, browser, cond, cnt, hist>>

\* ... whose value is dropped: the method returns None.
WaitForAjaxCompleted_Return ==
    /\ Running("_WaitForAjaxCompleted", "called")
    /\ flight.kind = "return"
    /\ stack' = Pop
    /\ flight' = Return(None)
    /\ UNCHANGED <<script, args, browser, cond, cnt, hist>>

(***************************************************************************)
(* The AJAX idle gate on its own.                                          *)
(***************************************************************************)
InitIdle ==
    /\ script = <<Call("_WaitForAjaxCompleted", "", <<>>, <<>>, <<>>)>>
    /\ args = NoCall
    /\ stack = <<>>
    /\ flight = NoFlight
    /\ \E q \in 0..MaxQueue, l \in Logs :
          browser = [NoBrowser EXCEPT !.queue = q, !.log = l]
    /\ cond = NoCond
    /\ cnt = NoCounts({"eq_poll", "eq_hit", "eq_sleep", "jscheck"})
    /\ hist = HistLast

NextIdle ==
    \/ Test_Call
    \/ WaitForAjaxCompleted_Call
    \/ WaitForAjaxCompleted_Return
    \/ WaitUntilEqual_Poll
    \/ WaitUntilEqual_Sleep
    \/ WaitUntilEqual_Timeout
    \/ Unwind

SpecIdle == InitIdle /\ [][NextIdle]_vars

\* C7: _WaitForAjaxCompleted succeeds exactly at the first poll whose probe
\* yields 0: when it has returned, the latest probe value is 0, no earlier
\* poll yielded 0, and k polls were separated by k-1 sleeps (k <= 25); a
\* poll that yields 0 ends the wait at once; and when no poll yields 0 the
\* wait ends after 25 polls with the timeout RuntimeError.
C7_IdleAtFirstZero ==
    /\ flight.kind = "return" =>
          /\ hist.last = Return(Int0)
          /\ cnt["eq_hit"] = 1
          /\ cnt["eq_poll"] <= 25
          /\ cnt["eq_sleep"] = cnt["eq_poll"] - 1
    /\ cnt["eq_hit"] >= 1 => flight.kind = "return"
    /\ (Done /\ flight.kind = "return") => flight.val = None
    /\ (stack = <<>> /\ flight.kind = "raise") =>
          /\ cnt["eq_hit"] = 0
          /\ cnt["eq_poll"] = 25
          /\ cnt["eq_sleep"] = 25
          /\ flight = Raise(Exc("RuntimeError", "WaitUntilEqual", 0))

\* The scenario of the specification, a probe that is non-zero twice and
\* then 0: success on the third poll.
C7_Witness ==
    /\ Done
    /\ flight.kind = "return"
    /\ cnt["eq_poll"] = 3
    /\ cnt["eq_sleep"] = 2
    /\ browser.queue = 0

(***************************************************************************)
(* Click and DoubleClick                                                   *)
(***************************************************************************)
VisibleWait == Frame("WaitUntil", "start", 0, "GetVisibleElement", None)

\* An interaction that goes straight to the visibility wait.
Interaction_Gate_Skipped(fn) ==
    /\ Running(fn, "start")
    /\ stack' = Append(Goto("waited"), VisibleWait)
    /\ UNCHANGED <<script, args, flight, browser, cond, cnt, hist>>

\* self._WaitForAjaxCompleted()
Interaction_Gate(fn) ==
    /\ Running(fn, "start")
    /\ stack' = Append(Goto("gated"), Frame("_WaitForAjaxCompleted", "start", 0, "", None))
    /\ UNCHANGED <<script, args, flight, browser, cond, cnt, hist>>

\* element = self.WaitUntil(self.GetVisibleElement, target) -- the call.
Interaction_Wait(fn) ==
    /\ Running(fn, "gated")
    /\ flight.kind = "return"
    /\ stack' = Append(Goto("waited"), VisibleWait)
    /\ flight' = NoFlight
    /\ UNCHANGED <<script, args, browser, cond, cnt, hist>>

\* The driver's click on the element the wait returned: it goes through, or
\* the driver fails with a WebDriverException.  History: used is the
\* element handle the click was issued on.
Interaction_Do(fn, event) ==
    /\ Running(fn, "waited")
    /\ flight.kind = "return"
    /\ stack' = Pop
    /\ cnt' = Count(cnt, event, 1)
    /\ hist' = Note(hist, "used", flight.val)
    /\ \/ flight' = Return(None)
       \/ flight' = Raise(Exc("WebDriverException", event, Seen(event) + 1))
    /\ UNCHANGED <<script, args, browser, cond>>

Click_Gate == Interaction_Gate("Click")
Click_Wait == Interaction_Wait("Click")
\* element.click()
Click_Do == Interaction_Do("Click", "click")

DoubleClick_Gate == Interaction_Gate("DoubleClick")
DoubleClick_Wait == Interaction_Wait("DoubleClick")
\* action_chains.ActionChains(self.driver).double_click(element).perform()
DoubleClick_Do == Interaction_Do("DoubleClick", "double_click")

(***************************************************************************)
(* Click and DoubleClick on a page whose DOM and AJAX queue move.          *)
(***************************************************************************)
ClickTargets == {<<"css", "=", "X">>, <<"id", "=", "X">>}

InitClick ==
    /\ \E op \in {"Click", "DoubleClick"}, t \in ClickTargets :
          script = <<Call(op, "", t, <<>>, <<>>)>>
    /\ args = NoCall
    /\ stack = <<>>
    /\ flight = NoFlight
    /\ \E q \in 0..MaxQueue, l \in QuietOrSevere, d \in Doms(1..MaxNodes, {TRUE}) :
          browser = [NoBrowser EXCEPT !.queue = q, !.log = l,
                                      !.nodes = 1..MaxNodes, !.dom = d]
    /\ cond = NoCond
    /\ cnt = NoCounts({"click", "double_click"})
    /\ hist = HistGate

NextClick ==
    \/ Test_Call
    \/ Decorator_Invoke
    \/ Decorator_Return
    \/ Decorator_Except
    \/ Decorator_Sleep
    \/ Unwind
    \/ Click_Gate
    \/ Click_Wait
    \/ Click_Do
    \/ DoubleClick_Gate
    \/ DoubleClick_Wait
    \/ DoubleClick_Do
    \/ WaitForAjaxCompleted_Call
    \/ WaitForAjaxCompleted_Return
    \/ WaitUntilEqual_Poll
    \/ WaitUntilEqual_Sleep
    \/ WaitUntilEqual_Timeout
    \/ WaitUntil_Enter
    \/ WaitUntil_Poll
    \/ WaitUntil_Sleep
    \/ WaitUntil_Timeout

SpecClick == InitClick /\ [][NextClick]_vars

\* A step that issues the driver's click or double-click.
Clicks == cnt["click"] + cnt["double_click"]

\* C8: the driver click (or double-click) is issued only in an attempt in
\* which the idle probe was seen at 0 and, after that, the visibility wait
\* came back with an element the DOM showed; every retry attempt starts
\* with the gate closed again.
C8_ClickOnlyWhenGated ==
    [][/\ (cnt'["click"] + cnt'["double_click"] > Clicks) => hist.gate = 2
       /\ (Running("Decorator", "try") /\ stack' # stack) => hist'.gate = 0]_vars

\* A click that went through at the second attempt.
C8_Witness ==
    /\ Done
    /\ flight.kind = "return"
    /\ Clicks = 2
    /\ hist.gate = 2

(***************************************************************************)
(* GetValue / GetAttribute and Type                                        *)
(***************************************************************************)
\* The longest text the test types.
MaxLen == 2

\* The texts the test types: the prefixes of one word.
Word == <<"a", "b", "c", "d">>
Texts == {SubSeq(Word, 1, n) : n \in 0..MaxLen}

\* What a field may hold before the test types into it.
OldValues == {<<>>, <<"x">>}

DropLast(text) == IF text = <<>> THEN text ELSE SubSeq(text, 1, Len(text) - 1)

\* A clear() that leaves the field as it is.
Clear_Kept(value) == value

\* element.clear()
Clear(value) == <<>>

\* element.send_keys(text): the keys are appended to the field; the driver
\* now and then swallows the last character.
SendKeys(value, text) == {value \o text, value \o DropLast(text)}

\* GetAttribute(target, attribute): the visibility wait ...
GetAttribute_Wait ==
    /\ Running("GetAttribute", "start")
    /\ stack' = Append(Goto("waited"), VisibleWait)
    /\ UNCHANGED <<script, args, flight, browser, cond, cnt, hist>>

\* ... and element.get_attribute("value") on the element it returned.
GetAttribute_Return ==
    /\ Running("GetAttribute", "waited")
    /\ flight.kind = "return"
    /\ stack' = Pop
    /\ flight' = Return(Val("str", browser.value[flight.val.v]))
    /\ UNCHANGED <<script, args, browser, cond, cnt, hist>>

\* Type: element = self.WaitUntil(self.GetVisibleElement, target)
Type_Wait ==
    /\ Running("Type", "start")
    /\ stack' = Append(Goto("waited"), VisibleWait)
    /\ UNCHANGED <<script, args, flight, browser, cond, cnt, hist>>

\* element.clear(); element.send_keys(text); with end_with_enter the ENTER
\* key follows and Type returns, without it Type goes on to GetValue.
Type_Keys ==
    /\ Running("Type", "waited")
    /\ flight.kind = "return"
    /\ LET node == flight.val.v
       IN  \E v \in SendKeys(Clear(browser.value[node]), args.text) :
              /\ browser' = [browser EXCEPT !.value[node] = v]
              /\ hist' = Note(hist, "field", node)
              /\ cnt' = Count(Count(cnt, "send", 1), "drop",
                              IF v = Clear(browser.value[node]) \o args.text
                              THEN 0 ELSE 1)
    /\ IF args.end_with_enter
       THEN /\ stack' = Pop
            /\ flight' = Return(None)
       ELSE /\ stack' = Append(Goto("sent"), Frame("GetAttribute", "start", 0, "", None))
            /\ flight' = NoFlight
    /\ UNCHANGED <<script, args, cond>>

\* if text != self.GetValue(target): raise exceptions.WebDriverException(...)
Type_Check ==
    /\ Running("Type", "sent")
    /\ flight.kind = "return"
    /\ stack' = Pop
    /\ flight' = IF args.text # flight.val.v
                 THEN Raise(Exc("WebDriverException", "Type", Seen("send")))
                 ELSE Return(None)
    /\ UNCHANGED <<script, args, browser, cond, cnt, hist>>

(***************************************************************************)
(* Type into a field of a page whose DOM moves.                            *)
(***************************************************************************)
InitType ==
    /\ \E t \in Texts, e \in BOOLEAN :
          script = <<[Call("Type", "", <<"id", "=", "X">>, t, <<>>)
                         EXCEPT !.end_with_enter = e]>>
    /\ args = NoCall
    /\ stack = <<>>
    /\ flight = NoFlight
    /\ \E l \in QuietOrSevere, d \in Doms(1..MaxNodes, {TRUE}),
          v \in [1..MaxNodes -> OldValues] :
          browser = [NoBrowser EXCEPT !.log = l, !.nodes = 1..MaxNodes,
                                      !.dom = d, !.value = v]
    /\ cond = NoCond
    /\ cnt = NoCounts({"send", "drop"})
    /\ hist = [field |-> 0]

NextType ==
    \/ Test_Call
    \/ Decorator_Invoke
    \/ Decorator_Return
    \/ Decorator_Except
    \/ Decorator_Sleep
    \/ Unwind
    \/ Type_Wait
    \/ Type_Keys
    \/ Type_Check
    \/ GetAttribute_Wait
    \/ GetAttribute_Return
    \/ WaitUntil_Enter
    \/ WaitUntil_Poll
    \/ WaitUntil_Sleep
    \/ WaitUntil_Timeout

SpecType == InitType /\ [][NextType]_vars

\* The field the test typed into, as it is now.
Typed == browser.value[hist.field]

\* C9: (a) when Type without end_with_enter has returned, the field holds
\* text exactly; (b) it fails only through a wait (a timeout, a console
\* error) unless the driver dropped a character in each of the 15 attempts;
\* (c) from the first send_keys on the field never holds more than text:
\* every attempt cleared it before sending.
C9_TypeLeavesText ==
    /\ (Done /\ flight.kind = "return" /\ ~args.end_with_enter) =>
          Typed = args.text
    /\ (Done /\ flight.kind = "raise" /\ ~args.end_with_enter) =>
          \/ flight.exc.origin \in {"WaitUntil", "CheckJavascriptErrors"}
          \/ cnt["drop"] = 15 /\ cnt["send"] = 15 /\ flight.exc.origin = "Type"
    /\ cnt["send"] >= 1 => Typed \in {args.text, DropLast(args.text)}

\* The driver dropped a character twice, the third attempt went through,
\* over a field that held something before.
C9_Witness ==
    /\ Done
    /\ flight.kind = "return"
    /\ ~args.end_with_enter
    /\ cnt["drop"] = 2
    /\ cnt["send"] = 3
    /\ Typed = <<"a", "b">>

(***************************************************************************)
(* URLs.  A URL string is a sequence of tokens; "?" and "#" are tokens of  *)
(* their own, and so is the scheme and host part of an absolute URL.       *)
(***************************************************************************)
\* self.base_url: scheme and host, no path.
Origin == "http://host"
base_url == <<Origin>>

\* The position of the first token c of a string, 0 when it has none.
FirstAt(str, c) ==
    IF \E i \in 1..Len(str) : str[i] = c
    THEN CHOOSE i \in 1..Len(str) :
             str[i] = c /\ \A j \in 1..(i - 1) : str[j] # c
    ELSE 0

\* urlparse.urlparse(url): scheme and netloc are split off an absolute URL,
\* the fragment starts at the first "#", the query at the first "?" before
\* it, and the path is what is left.
urlparse(url) ==
    LET absolute == url # <<>> /\ url[1] = Origin
        rest == IF absolute THEN Tail(url) ELSE url
        h == FirstAt(rest, "#")
        front == IF h = 0 THEN rest ELSE SubSeq(rest, 1, h - 1)
        q == FirstAt(front, "?")
    IN  [netloc |-> IF absolute THEN Origin ELSE "",
         path |-> IF q = 0 THEN front ELSE SubSeq(front, 1, q - 1),
         query |-> IF q = 0 THEN <<>> ELSE SubSeq(front, q + 1, Len(front)),
         fragment |-> IF h = 0 THEN <<>> ELSE SubSeq(rest, h + 1, Len(rest))]

\* The location the browser reports after loading the absolute URL url: an
\* empty path reads "/".
Location(url) ==
    LET u == urlparse(url)
    IN  <<Origin>> \o (IF u.path = <<>> THEN <<"/">> ELSE u.path)
           \o (IF u.query = <<>> THEN <<>> ELSE <<"?">> \o u.query)
           \o (IF u.fragment = <<>> THEN <<>> ELSE <<"#">> \o u.fragment)

\* Where the server may send the browser instead (a login page).
Elsewhere == {<<Origin, "/", "login">>}

(***************************************************************************)
(* Open and Refresh                                                        *)
(***************************************************************************)
\* prev_parsed_url.path == new_parsed_url.path and prev_parsed_url.query ==
\* new_parsed_url.query, where prev_parsed_url is parsed from
\* driver.current_url as read after driver.get, and new_parsed_url from the
\* url argument (before: the location before driver.get, which Open never
\* reads).
Open_SamePlace(before, current, url) ==
    /\ urlparse(current).path = urlparse(url).path
    /\ urlparse(current).query = urlparse(url).query

\* History: nav is 1 once driver.get went through in the running attempt
\* of Open and 2 once driver.refresh was called after it; before is the
\* location the browser was at when that driver.get was issued.
\*
\* self.driver.get(self.base_url + url): the page loads, the server sends
\* the browser elsewhere, or the driver fails.  Then the comparison, and
\* with it either the call of Refresh or the return.
Open_Get ==
    /\ Running("Open", "start")
    /\ \/ /\ \E to \in {Location(base_url \o args.url)} \cup Elsewhere :
                /\ browser' = [browser EXCEPT !.url = to]
                /\ IF Open_SamePlace(browser.url, to, args.url)
                   THEN /\ stack' = Append(Goto("refreshing"), Enter(Call("Refresh", "", <<>>, <<>>, <<>>)))
                        /\ flight' = NoFlight
                   ELSE /\ stack' = Pop
                        /\ flight' = Return(None)
          /\ hist' = Note(Note(hist, "nav", 1), "before", browser.url)
          /\ cnt' = Count(cnt, "get", 1)
       \/ /\ stack' = Pop
          /\ flight' = Raise(Exc("WebDriverException", "get", Seen("get") + 1))
          /\ hist' = Note(hist, "nav", 0)
          /\ cnt' = Count(Count(cnt, "get", 1), "get_fail", 1)
          /\ UNCHANGED browser
    /\ UNCHANGED <<script, args, cond>>

\* self.Refresh() returned: Open returns None.
Open_Return ==
    /\ Running("Open", "refreshing")
    /\ flight.kind = "return"
    /\ stack' = Pop
    /\ flight' = Return(None)
    /\ UNCHANGED <<script, args, browser, cond, cnt, hist>>

\* Refresh: self.driver.refresh() goes through or fails.
Refresh_Body ==
    /\ Running("Refresh", "start")
    /\ stack' = Pop
    /\ hist' = Note(hist, "nav", IF Noted("nav", 0) >= 1 THEN 2 ELSE 0)
    /\ \/ /\ flight' = Return(None)
          /\ cnt' = Count(cnt, "refresh", 1)
       \/ /\ flight' = Raise(Exc("WebDriverException", "refresh", Seen("refresh") + 1))
          /\ cnt' = Count(Count(cnt, "refresh", 1), "refresh_fail", 1)
    /\ UNCHANGED <<script, args, browser, cond>>

(***************************************************************************)
(* Two consecutive Opens.                                                  *)
(***************************************************************************)
UrlPaths == {<<>>, <<"/">>, <<"/", "a">>}
UrlQueries == {<<>>, <<"?", "q">>}
UrlFragments == {<<>>, <<"#", "f">>, <<"#", "g">>}
Urls == {p \o q \o f : p \in UrlPaths, q \in UrlQueries, f \in UrlFragments}

\* The test calls Open(url) and then Open(url + "#frag").
InitOpen ==
    /\ \E u \in Urls :
          script = <<Call("Open", "", <<>>, <<>>, u),
                     Call("Open", "", <<>>, <<>>, u \o <<"#", "frag">>)>>
    /\ args = NoCall
    /\ stack = <<>>
    /\ flight = NoFlight
    /\ browser = [NoBrowser EXCEPT !.url = <<"about:blank">>]
    /\ cond = NoCond
    /\ cnt = NoCounts({})
    /\ hist = [nav |-> 0, at_call |-> <<>>]

NextOpen ==
    \/ Test_Call
    \/ Decorator_Invoke
    \/ Decorator_Return
    \/ Decorator_Except
    \/ Decorator_Sleep
    \/ Unwind
    \/ Open_Get
    \/ Open_Return
    \/ Refresh_Body

SpecOpen == InitOpen /\ [][NextOpen]_vars

\* Both calls of the script were made: the second Open is the running or
\* the finished one.
SecondOpen == script = <<>> /\ args.op = "Open"

\* The browser is where the running Open asked it to go, and when that
\* Open was called it was where the Open before had asked it to go (the
\* same url without the "#frag" at its end).
Landed ==
    /\ browser.url = Location(base_url \o args.url)
    /\ hist.at_call = Location(base_url \o SubSeq(args.url, 1, Len(args.url) - 2))

\* C10: when Open(url + "#frag"), called right after Open(url), has
\* returned, and both times the browser landed on the requested location,
\* its last attempt called driver.refresh after its driver.get.
C10_FragmentOpenRefreshes ==
    (Done /\ SecondOpen /\ flight.kind = "return" /\ Landed) => hist.nav = 2

\* What the code does: it refreshes exactly when the path and query of the
\* location it lands on read the same as those of the url argument, which
\* an argument without a path never does (the browser reports "/").
C10_RefreshWhenArgumentMatches ==
    (Done /\ SecondOpen /\ flight.kind = "return" /\ Landed) =>
        (hist.nav = 2 <=> urlparse(args.url).path # <<>>)

(***************************************************************************)
(* One Open from anywhere on the site.                                     *)
(***************************************************************************)
\* The urls the test opens from a page it is already on.
NavUrls == {p \o q \o f : p \in UrlPaths, q \in UrlQueries, f \in {<<>>, <<"#", "f">>}}

\* The browser is on some page of the site and the test calls Open(url).
InitNavigate ==
    /\ \E u \in NavUrls : script = <<Call("Open", "", <<>>, <<>>, u)>>
    /\ args = NoCall
    /\ stack = <<>>
    /\ flight = NoFlight
    /\ \E at \in NavUrls :
          browser = [NoBrowser EXCEPT !.url = Location(base_url \o at)]
    /\ cond = NoCond
    /\ cnt = NoCounts({})
    /\ hist = [nav |-> 0, before |-> <<>>]

SpecNavigate == InitNavigate /\ [][NextOpen]_vars

\* Two locations with the same path and the same query.
SamePathAndQuery(a, b) ==
    /\ urlparse(a).path = urlparse(b).path
    /\ urlparse(a).query = urlparse(b).query

\* C11: when Open has returned, its last attempt called driver.refresh
\* after its driver.get if and only if the location after that navigation
\* has the path and query of the location before it.
C11_RefreshIffUnchanged ==
    (Done /\ flight.kind = "return") =>
        (hist.nav = 2 <=> SamePathAndQuery(hist.before, browser.url))

\* What the code does: the location after the navigation is compared with
\* the url argument, never with the location before.
C11_RefreshIffArgumentMatches ==
    (Done /\ flight.kind = "return") =>
        (hist.nav = 2 <=> SamePathAndQuery(browser.url, args.url))

\* An Open that moved the browser to another path and refreshed all the same.
C11_MovedAndRefreshed ==
    /\ Done
    /\ flight.kind = "return"
    /\ hist.nav = 2
    /\ urlparse(hist.before).path # urlparse(browser.url).path
    /\ browser.url = Location(base_url \o args.url)

(***************************************************************************)
(* Element lookup on its own: _FindElement, GetElement, GetVisibleElement   *)
(* and IsVisible, each called once on some selector and some DOM.          *)
(***************************************************************************)
\* The most elements a pattern matches in these lookups.
MaxMatches == 2

\* The scheme tokens a selector is written with ("" for none) and the
\* patterns: an id, an xpath, and each of them with an "=" inside (an
\* attribute test such as //X[@a="v"]).
Schemes == {"", "css", "link", "xpath", "id", "name", "foo", "CSS"}
Patterns ==
    {<<"X">>, <<"//", "X">>, <<"//", "X", "=", "v">>, <<"X", "=", "v">>}

\* The selector string written with a scheme and a pattern.
Selector(scheme, pattern) ==
    IF scheme = "" THEN pattern ELSE <<scheme, "=">> \o pattern

Lookups == {"_FindElement", "GetElement", "GetVisibleElement", "IsVisible"}

\* The four lookups, run against the present DOM.  by: the driver lookup
\* _FindElement used; "lookup" counts the driver lookups.
Lookup_Result(op, target, dom) ==
    CASE op = "_FindElement" -> FindElement(target, dom).out
      [] op = "GetElement" -> GetElement(target, dom)
      [] op = "GetVisibleElement" -> GetVisibleElement(target, dom)
      [] op = "IsVisible" -> IsVisible(target, dom)

Lookup_Body(op) ==
    /\ Running(op, "start")
    /\ stack' = Pop
    /\ flight' = Lookup_Result(op, args.target, browser.dom)
    /\ hist' = Note(hist, "by", FindElement(args.target, browser.dom).by)
    /\ cnt' = Count(cnt, "lookup",
                    IF FindElement(args.target, browser.dom).by = "none"
                    THEN 0 ELSE 1)
    /\ UNCHANGED <<script, args, browser, cond>>

FindElement_Body == Lookup_Body("_FindElement")
GetElement_Body == Lookup_Body("GetElement")
GetVisibleElement_Body == Lookup_Body("GetVisibleElement")
IsVisible_Body == Lookup_Body("IsVisible")

\* History: scheme and pattern are what the selector was written with.
InitFind ==
    /\ \E op \in Lookups, sch \in Schemes, pat \in Patterns :
          /\ script = <<Call(op, "", Selector(sch, pat), <<>>, <<>>)>>
          /\ hist = [by |-> "", scheme |-> sch, pattern |-> pat]
    /\ args = NoCall
    /\ stack = <<>>
    /\ flight = NoFlight
    /\ \E d \in Doms(1..MaxMatches, BOOLEAN) :
          browser = [NoBrowser EXCEPT !.nodes = 1..MaxMatches,
                                      !.exacts = BOOLEAN, !.dom = d]
    /\ cond = NoCond
    /\ cnt = NoCounts({"lookup"})

NextFind ==
    \/ Test_Call
    \/ FindElement_Body
    \/ GetElement_Body
    \/ GetVisibleElement_Body
    \/ IsVisible_Body

SpecFind == InitFind /\ [][NextFind]_vars

\* The scheme tokens _FindElement knows.
KnownSchemes == {"css", "link", "xpath", "id", "name"}

\* The error of an unknown selector type.
ConfigurationError == Raise(Exc("RuntimeError", "_FindElement", 0))

\* C12: _FindElement called on a selector written as token=pattern with a
\* token that is none of css, link, xpath, id, name ends with the
\* RuntimeError of an unknown selector type, never with
\* NoSuchElementException or an element, and makes no driver lookup.
C12_UnknownSchemeFails ==
    (Done /\ args.op = "_FindElement" /\ hist.scheme \notin KnownSchemes \cup {""}) =>
        /\ flight = ConfigurationError
        /\ hist.by = "none"
        /\ cnt["lookup"] = 0

\* "foo=X" on a DOM in which X matches a displayed element.
C12_Witness ==
    /\ Done
    /\ args.target = <<"foo", "=", "X">>
    /\ args.op = "_FindElement"
    /\ Len(browser.dom) = 2
    /\ browser.dom[1].displayed
    /\ flight.exc.type = "RuntimeError"

\* The selector has no scheme prefix: no scheme was written, and the
\* pattern does not itself begin with a scheme token and "=".
Bare == hist.scheme = ""

\* C14: _FindElement called on a selector without scheme prefix uses the
\* xpath lookup when the string starts with "//" and the id lookup
\* otherwise, on the whole string, also when the pattern contains an "=".
C14_BareSelectorLookup ==
    (Done /\ args.op = "_FindElement" /\ Bare) =>
        /\ hist.by = (IF hist.pattern[1] = "//" THEN "xpath" ELSE "id")
        /\ cnt["lookup"] = 1
        /\ flight # ConfigurationError

\* What the code does: a bare selector is looked up by xpath or id only
\* when it holds no "=" at all; with an "=" in it, what precedes the first
\* "=" is taken for the selector type.
C14_BareSelectorWithoutEq ==
    (Done /\ args.op = "_FindElement" /\ Bare) =>
        IF \E i \in 1..Len(hist.pattern) : hist.pattern[i] = "="
        THEN flight = ConfigurationError /\ cnt["lookup"] = 0
        ELSE /\ hist.by = (IF hist.pattern[1] = "//" THEN "xpath" ELSE "id")
             /\ cnt["lookup"] = 1

\* A bare xpath with an attribute test, on a DOM where it matches.
C14_BareXpathRejected ==
    /\ Done
    /\ args.op = "_FindElement"
    /\ args.target = <<"//", "X", "=", "v">>
    /\ browser.dom # <<>>
    /\ flight = ConfigurationError

\* The first element of the DOM that is displayed, 0 when there is none.
FirstDisplayed ==
    IF \E i \in 1..Len(browser.dom) : browser.dom[i].displayed
    THEN CHOOSE i \in 1..Len(browser.dom) :
             /\ browser.dom[i].displayed
             /\ \A j \in 1..(i - 1) : ~browser.dom[j].displayed
    ELSE 0

\* C15: _FindElement called on css=X returns the first of the elements X
\* matches, in document order, that is displayed, and ends with
\* NoSuchElementException when X matches nothing or nothing displayed.
C15_CssFirstDisplayed ==
    (Done /\ args.op = "_FindElement" /\ hist.scheme = "css") =>
        /\ hist.by = "execute_script"
        /\ IF FirstDisplayed = 0
           THEN flight.kind = "raise" /\ flight.exc.type = "NoSuchElementException"
           ELSE flight = Return(Elem(browser.dom[FirstDisplayed].node))

\* Two matches, the first hidden: the second is returned.
C15_Witness ==
    /\ Done
    /\ args.op = "_FindElement"
    /\ args.target = <<"css", "=", "X">>
    /\ Len(browser.dom) = 2
    /\ ~browser.dom[1].displayed
    /\ browser.dom[2].displayed
    /\ flight = Return(Elem(browser.dom[2].node))

\* The element with the id exists and is hidden.
HiddenId ==
    /\ hist.scheme = "id"
    /\ browser.dom # <<>>
    /\ ~browser.dom[1].displayed

\* C16: on id=P whose element exists but is not displayed, _FindElement and
\* GetElement return that element, found by the id lookup; IsVisible
\* returns False; GetVisibleElement returns None.
C16_HiddenIdFound ==
    (Done /\ HiddenId) =>
        /\ hist.by = "id"
        /\ args.op \in {"_FindElement", "GetElement"} =>
              flight = Return(Elem(browser.dom[1].node))
        /\ args.op = "IsVisible" => flight = Return(False)
        /\ args.op = "GetVisibleElement" => flight = Return(None)

C16_Witness ==
    /\ Done
    /\ HiddenId
    /\ args.op = "IsVisible"
    /\ flight = Return(False)
    /\ Len(browser.dom) = 2
    /\ browser.dom[2].displayed

(***************************************************************************)
(* Interactions given a selector: Click and GetAttribute on a selector of  *)
(* a known scheme and on one of an unknown scheme.                         *)
(***************************************************************************)
\* A selector whose scheme token is none _FindElement knows.
BadTarget == <<"foo", "=", "X">>

InitAct ==
    /\ \E op \in {"Click", "GetAttribute"}, t \in {BadTarget, <<"id", "=", "X">>} :
          script = <<Call(op, "", t, <<>>, <<>>)>>
    /\ args = NoCall
    /\ stack = <<>>
    /\ flight = NoFlight
    /\ \E q \in 0..MaxQueue, d \in Doms(1..MaxNodes, {TRUE}) :
          browser = [NoBrowser EXCEPT !.queue = q, !.nodes = 1..MaxNodes,
                                      !.dom = d,
                                      !.value = [n \in 1..MaxNodes |-> <<>>]]
    /\ cond = NoCond
    /\ cnt = NoCounts({})
    /\ hist = [resolved |-> 0]

NextAct ==
    \/ Test_Call
    \/ Decorator_Invoke
    \/ Decorator_Return
    \/ Decorator_Except
    \/ Decorator_Sleep
    \/ Unwind
    \/ Click_Gate
    \/ Click_Wait
    \/ Click_Do
    \/ GetAttribute_Wait
    \/ GetAttribute_Return
    \/ WaitForAjaxCompleted_Call
    \/ WaitForAjaxCompleted_Return
    \/ WaitUntilEqual_Poll
    \/ WaitUntilEqual_Sleep
    \/ WaitUntilEqual_Timeout
    \/ WaitUntil_Enter
    \/ WaitUntil_Poll
    \/ WaitUntil_Sleep
    \/ WaitUntil_Timeout

SpecAct == InitAct /\ [][NextAct]_vars

\* C13: an interaction given a selector of an unknown scheme resolves the
\* selector exactly once and ends with the unknown-selector-type error.
C13_ConfigurationErrorImmediate ==
    (Done /\ args.target = BadTarget) =>
        /\ hist.resolved = 1
        /\ flight = ConfigurationError

\* What the code does: the error of _FindElement is swallowed by the wait,
\* which resolves the selector at each of its 25 polls and ends with its
\* timeout error (unless the idle gate of Click timed out before).
C13_ConfigurationErrorTimesOut ==
    (Done /\ args.target = BadTarget) =>
        \/ /\ hist.resolved = 25
           /\ flight = Raise(Exc("RuntimeError", "WaitUntil", 0))
        \/ /\ hist.resolved = 0
           /\ args.op = "Click"
           /\ flight = Raise(Exc("RuntimeError", "WaitUntilEqual", 0))

\* GetAttribute on the unknown scheme, timed out after 25 resolutions.
C13_ResolvedAtEveryPoll ==
    /\ Done
    /\ args.op = "GetAttribute"
    /\ args.target = BadTarget
    /\ hist.resolved = 25
    /\ flight.exc.origin = "WaitUntil"

(***************************************************************************)
(* WaitUntilNot and WaitUntilContains                                      *)
(***************************************************************************)
\* WaitUntilNot: self.WaitUntil(lambda: not condition_cb(*args)) ...
WaitUntilNot_Call ==
    /\ Running("WaitUntilNot", "start")
    /\ stack' = Append(Goto("called"), Frame("WaitUntil", "start", 0, "lambda", None))
    /\ UNCHANGED <<script, args, flight, browser, cond, cnt, hist>>

\* ... whose value is dropped: the method has no return statement.
WaitUntilNot_Return ==
    /\ Running("WaitUntilNot", "called")
    /\ flight.kind = "return"
    /\ stack' = Pop
    /\ flight' = Return(None)
    /\ UNCHANGED <<script, args, browser, cond, cnt, hist>>

\* target in data, for two strings.
PyIn(target, data) ==
    \E i \in 0..(Len(data) - Len(target)) :
        SubSeq(data, i + 1, i + Len(target)) = target

\* if target in data: -- the poll's outcome ends the wait (data that is no
\* string makes the test raise, which the wait swallows).
WaitUntilContains_Accept(o, target) ==
    o.kind = "return" /\ o.val.t = "str" /\ PyIn(target.v, o.val.v)

\* One round of the loop up to the sleep; there is no console check before
\* the loop.  On containment the wait returns True.
WaitUntilContains_Poll ==
    /\ \/ Running("WaitUntilContains", "start")
       \/ Running("WaitUntilContains", "poll")
    /\ Top.n < Iterations
    /\ \E o \in Invoke(Top.loc, Seen("in_poll") + 1) :
          /\ hist' = Note(hist, "last", o)
          /\ cnt' = Count(cnt, "in_poll", 1)
          /\ IF WaitUntilContains_Accept(o, Top.arg)
             THEN /\ stack' = Pop
                  /\ flight' = Return(True)
             ELSE /\ stack' = Goto("sleep")
                  /\ flight' = NoFlight
    /\ UNCHANGED <<script, args, browser, cond>>

\* time.sleep(self.sleep_time), and on to the next round.
WaitUntilContains_Sleep ==
    /\ Running("WaitUntilContains", "sleep")
    /\ stack' = SetTop([Top EXCEPT !.n = @ + 1, !.pc = "poll"])
    /\ cnt' = Count(cnt, "clock", TicksPerSleep)
    /\ Elapse
    /\ UNCHANGED <<script, args, flight, hist>>

\* The loop ran out: raise RuntimeError("condition not met. Got %r" % data).
WaitUntilContains_Timeout ==
    /\ Running("WaitUntilContains", "poll")
    /\ Top.n >= Iterations
    /\ stack' = Pop
    /\ flight' = Raise(Exc("RuntimeError", "WaitUntilContains", 0))
    /\ UNCHANGED <<script, args, browser, cond, cnt, hist>>

(***************************************************************************)
(* The four waits, each called once on an abstract condition.              *)
(***************************************************************************)
\* The values WaitUntilEqual and WaitUntilContains are asked to wait for.
EqualTargets == {Int0, Obj(1)}
ContainsTargets == {Val("str", <<"b">>)}

WaitCalls ==
    {Call("WaitUntil", "cb", <<>>, <<>>, <<>>),
     Call("WaitUntilNot", "cb", <<>>, <<>>, <<>>)}
    \cup {Call("WaitUntilEqual", "cb", t, <<>>, <<>>) : t \in EqualTargets}
    \cup {Call("WaitUntilContains", "text", t, <<>>, <<>>) : t \in ContainsTargets}

InitVariants ==
    /\ \E c \in WaitCalls : script = <<c>>
    /\ args = NoCall
    /\ stack = <<>>
    /\ flight = NoFlight
    /\ \E l \in Logs : browser = [NoBrowser EXCEPT !.log = l]
    /\ \E w \in Worlds : cond = [world |-> w, since |-> 0]
    /\ cnt = NoCounts({"jscheck", "poll", "eq_poll", "in_poll"})
    /\ hist = HistLast

NextVariants ==
    \/ Test_Call
    \/ Unwind
    \/ WaitUntil_Enter
    \/ WaitUntil_Poll
    \/ WaitUntil_Sleep
    \/ WaitUntil_Timeout
    \/ WaitUntilNot_Call
    \/ WaitUntilNot_Return
    \/ WaitUntilEqual_Poll
    \/ WaitUntilEqual_Sleep
    \/ WaitUntilEqual_Timeout
    \/ WaitUntilContains_Poll
    \/ WaitUntilContains_Sleep
    \/ WaitUntilContains_Timeout

SpecVariants == InitVariants /\ [][NextVariants]_vars

\* The callback invocations of the wait so far.
Polls == cnt["poll"] + cnt["eq_poll"] + cnt["in_poll"]

\* C18: every wait scans the console before its first poll: with a severe
\* javascript entry in the console no wait invokes its callback, and every
\* wait ends with the test failure.
C18_EveryWaitChecksConsole ==
    SevereLogged =>
        /\ Polls = 0
        /\ Done => flight = TestFailure

\* What the code does: WaitUntil, and WaitUntilNot through it, scan the
\* console once; WaitUntilEqual and WaitUntilContains never do.
C18_OnlyWaitUntilChecks ==
    /\ Done =>
          cnt["jscheck"] =
              (IF args.op \in {"WaitUntil", "WaitUntilNot"} THEN 1 ELSE 0)
    /\ (Done /\ SevereLogged) =>
          (flight = TestFailure <=> args.op \in {"WaitUntil", "WaitUntilNot"})

\* WaitUntilEqual came back with success over a console with a severe entry.
C18_PolledDespiteSevere ==
    /\ Done
    /\ SevereLogged
    /\ args.op = "WaitUntilEqual"
    /\ flight = Return(True)
    /\ cnt["eq_poll"] = 2

\* C19 as claimed: a wait that returns, returns the value of the accepted
\* invocation of its condition.
C19_ReturnsCallbackValue ==
    (Done /\ flight.kind = "return") => flight.val = hist.last.val

\* C19 as amended: WaitUntil returns the truthy value of the accepted
\* invocation; WaitUntilEqual returns True, after an invocation whose value
\* equals target; WaitUntilContains returns True, after an invocation whose
\* value contains target; WaitUntilNot returns None, after an invocation of
\* the condition whose negation was True.
C19_ReturnsPerVariant ==
    (Done /\ flight.kind = "return") =>
        /\ hist.last.kind = "return"
        /\ args.op = "WaitUntil" =>
              flight.val = hist.last.val /\ Truthy(flight.val)
        /\ args.op = "WaitUntilEqual" =>
              flight.val = True /\ PyEq(hist.last.val, args.target)
        /\ args.op = "WaitUntilContains" =>
              /\ flight.val = True
              /\ PyIn(args.target.v, hist.last.val.v)
        /\ args.op = "WaitUntilNot" =>
              flight.val = None /\ hist.last.val = True

\* WaitUntilEqual(0, cb) whose callback returned 0 at the second poll.
C19_Witness ==
    /\ Done
    /\ args.op = "WaitUntilEqual"
    /\ args.target = Int0
    /\ hist.last = Return(Int0)
    /\ flight = Return(True)
    /\ cnt["eq_poll"] = 2

(***************************************************************************)
(* Click on a page whose DOM and AJAX queue move, its attempts counted.    *)
(***************************************************************************)
InitGated ==
    /\ script = <<Call("Click", "", <<"id", "=", "X">>, <<>>, <<>>)>>
    /\ args = NoCall
    /\ stack = <<>>
    /\ flight = NoFlight
    /\ \E q \in 0..MaxQueue, l \in QuietOrSevere, d \in Doms(1..MaxNodes, {TRUE}) :
          browser = [NoBrowser EXCEPT !.queue = q, !.log = l,
                                      !.nodes = 1..MaxNodes, !.dom = d]
    /\ cond = NoCond
    /\ cnt = NoCounts({"attempt", "click"})
    /\ hist = HistGate

NextGated ==
    \/ Test_Call
    \/ Decorator_Invoke
    \/ Decorator_Return
    \/ Decorator_Except
    \/ Decorator_Sleep
    \/ Unwind
    \/ Click_Gate
    \/ Click_Wait
    \/ Click_Do
    \/ WaitForAjaxCompleted_Call
    \/ WaitForAjaxCompleted_Return
    \/ WaitUntilEqual_Poll
    \/ WaitUntilEqual_Sleep
    \/ WaitUntilEqual_Timeout
    \/ WaitUntil_Enter
    \/ WaitUntil_Poll
    \/ WaitUntil_Sleep
    \/ WaitUntil_Timeout

SpecGated == InitGated /\ [][NextGated]_vars

\* A wait of the action has ended in its timeout error, or with the test
\* failure of a severe console error.
WaitFailed ==
    /\ flight.kind = "raise"
    /\ flight.exc.origin \in {"WaitUntil", "WaitUntilEqual", "CheckJavascriptErrors"}

InitNot ==
    /\ script = <<Call("WaitUntilNot", "cb", <<>>, <<>>, <<>>)>>
    /\ args = NoCall
    /\ stack = <<>>
    /\ flight = NoFlight
    /\ \E l \in Logs : browser = [NoBrowser EXCEPT !.log = l]
    /\ \E w \in Worlds : cond = [world |-> w, since |-> 0]
    /\ cnt = NoCounts({"poll", "falsy", "wsleep"})
    /\ hist = HistLast

NextNot ==
    \/ Test_Call
    \/ Unwind
    \/ WaitUntilNot_Call
    \/ WaitUntilNot_Return
    \/ WaitUntil_Enter
    \/ WaitUntil_Poll
    \/ WaitUntil_Sleep
    \/ WaitUntil_Timeout

SpecNot == InitNot /\ [][NextNot]_vars

\* C21: WaitUntilNot succeeds exactly at the first poll at which the
\* condition returns a falsy value: when it has returned, that poll was the
\* only such one, k polls (k <= 25) were separated by k-1 sleeps, and the
\* condition is falsy; a poll of a falsy condition ends the wait at once;
\* and when at every poll the condition raised or returned a truthy value,
\* the wait ends after 25 polls with the timeout error.
C21_NotAtFirstFalsy ==
    /\ flight.kind = "return" =>
          /\ cnt["falsy"] = 1
          /\ cond.world = "falsy"
          /\ hist.last = Return(True)
          /\ cnt["poll"] <= 25
          /\ cnt["wsleep"] = cnt["poll"] - 1
    /\ cnt["falsy"] >= 1 => flight.kind = "return"
    /\ (Done /\ flight.kind = "return") => flight.val = None
    /\ (Done /\ flight.kind = "raise" /\ ~SevereLogged) =>
          /\ cnt["falsy"] = 0
          /\ cnt["poll"] = 25
          /\ flight = Raise(Exc("RuntimeError", "WaitUntil", 0))

\* Raised at the first poll, truthy at the second, falsy at the third.
C21_Witness ==
    /\ Done
    /\ flight = Return(None)
    /\ cnt["poll"] = 3
    /\ cnt["falsy"] = 1
    /\ cnt["wsleep"] = 2

\* A callback that raised at the last of the 25 polls, never falsy.
C21_RaisingTimesOut ==
    /\ Done
    /\ flight = Raise(Exc("RuntimeError", "WaitUntil", 0))
    /\ hist.last.kind = "raise"
    /\ cnt["poll"] = 25

(***************************************************************************)
(* Click on a page whose matching element is hidden, shown, removed or     *)
(* replaced by another node while the test sleeps.                         *)
(***************************************************************************)
\* The most nodes that come to match the target of the click over time.
MaxHandles == 2

InitHandles ==
    /\ script = <<Call("Click", "", <<"id", "=", "X">>, <<>>, <<>>)>>
    /\ args = NoCall
    /\ stack = <<>>
    /\ flight = NoFlight
    /\ \E d \in Doms(1..MaxHandles, {TRUE}) :
          /\ Len(d) <= 1
          /\ browser = [NoBrowser EXCEPT !.queue = 0, !.nodes = 1..MaxHandles,
                                         !.unique = TRUE, !.dom = d]
    /\ cond = NoCond
    /\ cnt = NoCounts({"click"})
    /\ hist = [last |-> NoFlight, used |-> None, resolved |-> 0]

SpecHandles == InitHandles /\ [][NextGated]_vars

\* This step is a poll of the visibility wait.
VisibilityPoll ==
    /\ Running("WaitUntil", "poll")
    /\ Top.loc = "GetVisibleElement"
    /\ stack' # stack
    /\ Top.n < Iterations

\* This step issues the driver's click.
ClickIssued == cnt'["click"] > cnt["click"]

\* C22: every poll of the visibility wait resolves the selector (one more
\* resolution in the running attempt, which began with none); and the
\* handle a click is issued on is the outcome of the latest poll, resolved
\* in the running attempt, an element that the DOM of that poll holds and
\* shows.
C22_FreshHandle ==
    [][/\ VisibilityPoll => hist'.resolved = hist.resolved + 1
       /\ (Running("Decorator", "try") /\ stack' # stack) => hist'.resolved = 0
       /\ ClickIssued =>
             /\ hist'.used = hist.last.val
             /\ hist.resolved >= 1
             /\ \E i \in 1..Len(browser.dom) :
                   /\ Elem(browser.dom[i].node) = hist'.used
                   /\ browser.dom[i].displayed]_vars

\* The click of the first attempt failed in the driver; the click of the
\* second attempt went to node 2, resolved at the third poll of that
\* attempt, and node 2 is the only match the page is left with.
C22_Witness ==
    /\ Done
    /\ flight.kind = "return"
    /\ cnt["click"] = 2
    /\ hist.used = Elem(2)
    /\ hist.resolved = 3
    /\ Len(browser.dom) = 1
    /\ browser.dom[1].node = 2

(***************************************************************************)
(* One Open, its driver calls counted.  The test is a sequential program:  *)
(* as long as it has a step to take, it takes one.                         *)
(***************************************************************************)
InitBudget ==
    /\ \E u \in {<<>>, <<"/">>, <<"/", "a">>} :
          script = <<Call("Open", "", <<>>, <<>>, u)>>
    /\ args = NoCall
    /\ stack = <<>>
    /\ flight = NoFlight
    /\ browser = [NoBrowser EXCEPT !.url = <<"about:blank">>]
    /\ cond = NoCond
    /\ cnt = NoCounts({"get", "get_fail", "refresh", "refresh_fail"})
    /\ hist = [nav |-> 0]

SpecBudget == InitBudget /\ [][NextOpen]_vars /\ WF_vars(NextOpen)

\* C23: one Open call issues at most 15 driver navigations and at most 225
\* driver refreshes; when it has failed although no navigation failed (each
\* of its attempts got as far as Refresh, whose every driver refresh
\* failed), it has issued exactly 15 navigations and 15 x 15 = 225
\* refreshes, all failed, and the caller gets the error of the last
\* refresh; and every Open call comes to an end.
C23_NestedBudgets ==
    /\ [](/\ cnt["get"] <= 15
          /\ cnt["refresh"] <= 225
          /\ (Done /\ flight.kind = "raise" /\ cnt["get_fail"] = 0) =>
                /\ cnt["get"] = 15
                /\ cnt["refresh"] = 225
                /\ cnt["refresh_fail"] = 225
                /\ flight = Raise(Exc("WebDriverException", "refresh", 225)))
    /\ <>Done

C23_Witness ==
    /\ Done
    /\ cnt["get"] = 15
    /\ cnt["get_fail"] = 0
    /\ cnt["refresh"] = 225
    /\ flight.exc.origin = "refresh"

====
